---- MODULE Spec2Model ----
(***************************************************************************)
(* State-machine model of the "One" learning project:                      *)
(*   - Animal and its process-wide instance counter (animal.cpp)           *)
(*   - calc / catYears / dogYears, the age-conversion helpers (main.cpp)   *)
(*   - TestQProperty, the observable "message" property with its timer     *)
(*     (testqproperty.cpp)                                                 *)
(*   - the periodic timer used by TestQProperty (QTimer)                   *)
(*   - main and testStaticFunctions (main.cpp, teststaticfunctions.cpp)    *)
(* Each component has its own specification over the shared variables;     *)
(* the variables of the other components stay untouched.                    *)
(***************************************************************************)
EXTENDS Integers, Sequences, FiniteSets, TLC

VARIABLES
    \* ---- Animal ----
    count,        \* Animal::count
    animals,      \* live Animal objects: address -> parent address (0 = nullptr)
    constructs,   \* history: constructor runs so far
    destructs,    \* history: destructor runs so far
    \* ---- calc ----
    proc,         \* "running" | "aborted" (qFatal / trap ended the process)
    lastCall,     \* the last helper call and its outcome
    calcLog,      \* values of the "Calc: " lines written so far
    \* ---- TestQProperty ----
    obj,          \* "none" | "live" | "destroyed"
    m_message,    \* TestQProperty::m_message
    listeners,    \* connections to messageChanged, in connection order
    m_timer,      \* TestQProperty::m_timer
    pc,           \* "idle" (in the event loop) | "emit" (inside setMessage)
    idx,          \* next connection to activate while emitting
    emitArg,      \* argument of the signal being emitted
    calls,        \* slot invocations made by the current / last setMessage
    setArg,       \* history: argument of the current / last setMessage
    setOld,       \* history: m_message just before that setMessage
    ret,          \* return value of the last message() call
    lastOp,       \* history: last completed operation
    prevOp,       \* history: the operation completed before lastOp
    testLog,      \* number of "Test!" lines written
    \* ---- periodic timer on its own ----
    tmr,          \* a timer driven directly by a client
    tticks,       \* history: timeout callbacks delivered
    ticksSinceStop, \* history: callbacks delivered since the last stop(), while not restarted
    lastCtl,      \* history: last of start / stop called on the timer
    elapsed,      \* history: time passed since that call, in steps (saturating)
    tLastOp,      \* history: last timer operation
    tPrev,        \* history: state of the timer before the last operation
    \* ---- main ----
    mpc,          \* position inside main ("waiting": blocked in the event loop)
    argv,         \* command-line arguments
    out,          \* qInfo lines written by main's routine
    quit,         \* QCoreApplication quit flag
    exitCode      \* <<code>> once main has returned, <<>> before

animalVars == <<count, animals, constructs, destructs>>
calcVars   == <<proc, lastCall, calcLog>>
propVars   == <<obj, m_message, listeners, m_timer, pc, idx, emitArg, calls,
                setArg, setOld, ret, lastOp, prevOp, testLog>>
timerVars  == <<tmr, tticks, ticksSinceStop, lastCtl, elapsed, tLastOp, tPrev>>
mainVars   == <<mpc, argv, out, quit, exitCode>>
vars == <<animalVars, calcVars, propVars, timerVars, mainVars>>

----------------------------------------------------------------------------
(* Bounds *)
MaxAnimals    == 3    \* distinct addresses an Animal can live at
MaxConstructs == 6    \* constructor runs explored
MaxCalcLines  == 2    \* "Calc: " lines kept
MaxListeners  == 2    \* connections to messageChanged
MaxTestLines  == 2    \* "Test!" lines counted
MaxTicks      == 3    \* timer callbacks counted
MaxArgs       == 3    \* command-line arguments after the program name
MaxElapsed    == 4    \* time steps counted since the last start / stop

(* Program constants *)
MaxAge        == 120
CatFactor     == 9
DogFactor     == 7
TimerInterval == 1000

NoParent == 0
AnimalIds == 1..MaxAnimals

----------------------------------------------------------------------------
(* Animal *)

InitAnimalVars ==
    /\ count = 0
    /\ animals = <<>>
    /\ constructs = 0
    /\ destructs = 0

Live == DOMAIN animals

Children(S) == {a \in Live : animals[a] \in S}

RECURSIVE Subtree(_)
\* the object p together with everything QObject ownership deletes with it
Subtree(S) ==
    LET T == S \cup Children(S)
    IN  IF T = S THEN S ELSE Subtree(T)

\* Animal::Animal without the count++
AnimalCtorNoCount(a, parent) ==
    /\ a \notin Live
    /\ parent \in Live \cup {NoParent}
    /\ constructs < MaxConstructs
    /\ count' = count
    /\ animals' = [x \in Live \cup {a} |-> IF x = a THEN parent ELSE animals[x]]
    /\ constructs' = constructs + 1
    /\ UNCHANGED destructs

AnimalCtor(a, parent) ==
    /\ a \notin Live
    /\ parent \in Live \cup {NoParent}
    /\ constructs < MaxConstructs
    /\ count' = count + 1
    /\ animals' = [x \in Live \cup {a} |-> IF x = a THEN parent ELSE animals[x]]
    /\ constructs' = constructs + 1
    /\ UNCHANGED destructs

\* ~Animal runs count-- and then ~QObject deletes the children, whose own
\* ~Animal runs in turn: one count-- per object of the subtree
AnimalDtor(a) ==
    /\ a \in Live
    /\ LET dead == Subtree({a})
       IN  /\ count' = count - Cardinality(dead)
           /\ animals' = [x \in Live \ dead |-> animals[x]]
           /\ destructs' = destructs + Cardinality(dead)
    /\ UNCHANGED constructs

AnimalFrame == UNCHANGED <<calcVars, propVars, timerVars, mainVars>>

Construct ==
    /\ \E a \in AnimalIds, p \in AnimalIds \cup {NoParent} : AnimalCtor(a, p)
    /\ AnimalFrame

Destruct ==
    /\ \E a \in AnimalIds : AnimalDtor(a)
    /\ AnimalFrame

----------------------------------------------------------------------------
(* calc, catYears, dogYears *)

IntMax == 2147483647
IntMin == -IntMax - 1

\* a + b in int arithmetic that wraps, and whether it left the range of int
WrapAdd(a, b) ==
    IF b > 0 /\ a > IntMax - b
    THEN [value |-> ((a - IntMax) + (b - 1)) + IntMin, overflow |-> TRUE]
    ELSE IF b < 0 /\ a < IntMin - b
    THEN [value |-> ((a - IntMin) + (b + 1)) + IntMax, overflow |-> TRUE]
    ELSE [value |-> a + b, overflow |-> FALSE]

RECURSIVE Mul(_, _)
\* offset * age for age >= 0, by doubling; a partial product leaves the range
\* of int exactly when the whole product does
Mul(offset, age) ==
    IF age = 0 THEN [value |-> 0, overflow |-> FALSE]
    ELSE LET h == Mul(offset, age \div 2)
             d == WrapAdd(h.value, h.value)
             r == IF age % 2 = 1 THEN WrapAdd(d.value, offset) ELSE d
         IN  [value |-> r.value,
              overflow |-> h.overflow \/ d.overflow \/ r.overflow]

Offsets == {-1, 0, 1, 2, CatFactor, DogFactor, 1073741824}
Ages    == {-1, 0, 1, 2, 46, MaxAge, MaxAge + 1, 200}

Fatal(msg) == [kind |-> "fatal", value |-> 0, msg |-> msg, logged |-> FALSE]
Returned(x) == [kind |-> "returned", value |-> x, msg |-> "", logged |-> TRUE]
Trapped == [kind |-> "trap", value |-> 0, msg |-> "", logged |-> FALSE]

\* int x = offset * age; qInfo() << "Calc: " << x; return x;
\* A product outside int is signed overflow: the build either wraps it or
\* traps on it.
Multiply(offset, age) ==
    LET x == Mul(offset, age)
    IN  IF x.overflow THEN {Returned(x.value), Trapped} ELSE {Returned(x.value)}

\* calc with the lower age check off by one (age < 0)
calcAgeOffByOne(offset, age) ==
    IF offset = 0 THEN {Fatal("Offset can not be zero")}
    ELSE IF age < 0 \/ age > MaxAge THEN {Fatal("Invalid age")}
    ELSE Multiply(offset, age)

\* calc adding instead of multiplying
calcAdds(offset, age) ==
    IF offset = 0 THEN {Fatal("Offset can not be zero")}
    ELSE IF age <= 0 \/ age > MaxAge THEN {Fatal("Invalid age")}
    ELSE {Returned(WrapAdd(offset, age).value)}

\* The set of outcomes of calc(offset, age).  qFatal never returns.
calc(offset, age) ==
    IF offset = 0 THEN {Fatal("Offset can not be zero")}
    ELSE IF age <= 0 \/ age > MaxAge THEN {Fatal("Invalid age")}
    ELSE Multiply(offset, age)

catYears(age) == calc(CatFactor, age)

dogYears(age) == calc(DogFactor, age)

NoCall == [fn |-> "none", offset |-> 0, age |-> 0,
           kind |-> "none", value |-> 0, msg |-> "", logged |-> FALSE]

InitCalcVars ==
    /\ proc = "running"
    /\ lastCall = NoCall
    /\ calcLog = <<>>

\* one call of a helper from a running process, with its outcome applied
Apply(fn, offset, age, o) ==
    /\ proc = "running"
    /\ Len(calcLog) < MaxCalcLines
    /\ lastCall' = [fn |-> fn, offset |-> offset, age |-> age,
                    kind |-> o.kind, value |-> o.value, msg |-> o.msg,
                    logged |-> o.logged]
    /\ proc' = IF o.kind = "returned" THEN "running" ELSE "aborted"
    /\ calcLog' = IF o.logged THEN Append(calcLog, o.value) ELSE calcLog

CalcFrame == UNCHANGED <<animalVars, propVars, timerVars, mainVars>>

CallCalc ==
    /\ \E offset \in Offsets, age \in Ages :
          \E o \in calc(offset, age) : Apply("calc", offset, age, o)
    /\ CalcFrame

CallCatYears ==
    /\ \E age \in Ages :
          \E o \in catYears(age) : Apply("catYears", CatFactor, age, o)
    /\ CalcFrame

CallDogYears ==
    /\ \E age \in Ages :
          \E o \in dogYears(age) : Apply("dogYears", DogFactor, age, o)
    /\ CalcFrame

----------------------------------------------------------------------------
(* The periodic timer (QTimer): states Idle and Running *)

TimeStep == TimerInterval \div 2     \* granularity of the passage of time
Intervals == {TimeStep, TimerInterval, TimerInterval + TimeStep}

QTimerNew == [state |-> "Idle", interval |-> 0, remaining |-> 0]

QTimerSetInterval(t, ms) ==
    [t EXCEPT !.interval = ms,
              !.remaining = IF t.state = "Running" THEN ms ELSE t.remaining]

\* start: Idle -> Running, Running -> Running with the phase reset
QTimerStart(t) == [t EXCEPT !.state = "Running", !.remaining = t.interval]

\* a stop written as a toggle
QTimerStopToggles(t) ==
    IF t.state = "Running"
    THEN [t EXCEPT !.state = "Idle", !.remaining = 0]
    ELSE [t EXCEPT !.state = "Running", !.remaining = t.interval]

\* stop: Running -> Idle, nothing in Idle
QTimerStop(t) ==
    IF t.state = "Running"
    THEN [t EXCEPT !.state = "Idle", !.remaining = 0]
    ELSE t

\* one TimeStep passes
QTimerElapse(t) ==
    IF t.state = "Running" /\ t.remaining > 0
    THEN [t EXCEPT !.remaining = IF t.remaining > TimeStep
                                 THEN t.remaining - TimeStep ELSE 0]
    ELSE t

\* a timer that fires whenever its countdown is at zero, running or not
QTimerDueAnyState(t) == t.remaining = 0

\* the timer has a tick to deliver
QTimerDue(t) == t.state = "Running" /\ t.remaining = 0

\* delivering the tick re-arms the periodic timer
QTimerFire(t) == [t EXCEPT !.remaining = t.interval]

TimerFrame == UNCHANGED <<animalVars, calcVars, propVars, mainVars>>

InitTimerVars ==
    /\ tmr = QTimerNew
    /\ tticks = 0
    /\ ticksSinceStop = 0
    /\ lastCtl = "none"
    /\ elapsed = 0
    /\ tLastOp = "none"
    /\ tPrev = QTimerNew

TimerStart ==
    \E ms \in Intervals :
        /\ tmr' = QTimerStart(QTimerSetInterval(tmr, ms))
        /\ lastCtl' = "start"
        /\ elapsed' = 0
        /\ tLastOp' = "start"
        /\ tPrev' = tmr
        /\ UNCHANGED <<tticks, ticksSinceStop>>
        /\ TimerFrame

TimerStop ==
    /\ tmr' = QTimerStop(tmr)
    /\ lastCtl' = "stop"
    /\ elapsed' = 0
    /\ ticksSinceStop' = 0
    /\ tLastOp' = "stop"
    /\ tPrev' = tmr
    /\ UNCHANGED tticks
    /\ TimerFrame

TimerElapse ==
    /\ elapsed < MaxElapsed
    /\ tmr' = QTimerElapse(tmr)
    /\ elapsed' = elapsed + 1
    /\ UNCHANGED <<tticks, ticksSinceStop, lastCtl, tLastOp, tPrev>>
    /\ TimerFrame

\* the event loop delivers a due tick to the callback
TimerTick ==
    /\ QTimerDue(tmr)
    /\ tticks < MaxTicks
    /\ tmr' = QTimerFire(tmr)
    /\ tticks' = tticks + 1
    /\ ticksSinceStop' = IF lastCtl = "stop" THEN ticksSinceStop + 1
                         ELSE ticksSinceStop
    /\ tLastOp' = "tick"
    /\ tPrev' = tmr
    /\ UNCHANGED <<lastCtl, elapsed>>
    /\ TimerFrame

----------------------------------------------------------------------------
(* TestQProperty *)

Strings == {"", "x", "y"}
ListenerIds == {"A", "B"}

InitPropVars ==
    /\ obj = "none"
    /\ m_message = ""
    /\ listeners = <<>>
    /\ m_timer = QTimerNew
    /\ pc = "idle"
    /\ idx = 1
    /\ emitArg = ""
    /\ calls = <<>>
    /\ setArg = ""
    /\ setOld = ""
    /\ ret = ""
    /\ lastOp = "none"
    /\ prevOp = "none"
    /\ testLog = 0

PropFrame == UNCHANGED <<animalVars, calcVars, timerVars, mainVars>>

Done(op) == lastOp' = op /\ prevOp' = lastOp

\* the constructor with the m_timer.stop() of line 9 live
TimerAfterCtorStopped == QTimerStop(QTimerStart(QTimerSetInterval(QTimerNew, TimerInterval)))

\* m_timer when the constructor returns: setInterval(1000), start()
TimerAfterCtor == QTimerStart(QTimerSetInterval(QTimerNew, TimerInterval))

\* TestQProperty::TestQProperty
PropConstruct ==
    /\ PropFrame
    /\ obj = "none"
    /\ obj' = "live"
    /\ m_message' = ""
    /\ m_timer' = TimerAfterCtor
    /\ Done("ctor")
    /\ UNCHANGED <<listeners, pc, idx, emitArg, calls, setArg, setOld, ret, testLog>>

\* connect(obj, &TestQProperty::messageChanged, listener): no deduplication
Connect ==
    /\ PropFrame
    /\ obj = "live" /\ pc = "idle"
    /\ Len(listeners) < MaxListeners
    /\ \E l \in ListenerIds : listeners' = Append(listeners, l)
    /\ Done("connect")
    /\ UNCHANGED <<obj, m_message, m_timer, pc, idx, emitArg, calls, setArg,
                   setOld, ret, testLog>>

\* TestQProperty::message
Message ==
    /\ PropFrame
    /\ obj = "live" /\ pc = "idle"
    /\ ret' = m_message
    /\ Done("get")
    /\ UNCHANGED <<obj, m_message, listeners, m_timer, pc, idx, emitArg, calls,
                   setArg, setOld, testLog>>

\* a setMessage that forgets the emit
SetMessageNoEmit(v) ==
    /\ PropFrame
    /\ obj = "live" /\ pc = "idle"
    /\ setArg' = v
    /\ setOld' = m_message
    /\ m_message' = v
    /\ emitArg' = v
    /\ calls' = <<>>
    /\ idx' = 1
    /\ Done("set")
    /\ UNCHANGED <<obj, listeners, m_timer, pc, ret, testLog>>

\* a setMessage that emits the new value without storing it
SetMessageNoStore(v) ==
    /\ PropFrame
    /\ obj = "live" /\ pc = "idle"
    /\ setArg' = v
    /\ setOld' = m_message
    /\ emitArg' = v
    /\ calls' = <<>>
    /\ idx' = 1
    /\ pc' = "emit"
    /\ UNCHANGED <<obj, m_message, listeners, m_timer, ret, lastOp, prevOp, testLog>>

\* a setMessage with the usual equal-value guard
\* (if (m_message == newMessage) return;)
SetMessageGuarded(v) ==
    /\ PropFrame
    /\ obj = "live" /\ pc = "idle"
    /\ setArg' = v
    /\ setOld' = m_message
    /\ m_message' = v
    /\ emitArg' = v
    /\ calls' = <<>>
    /\ idx' = 1
    /\ IF m_message = v
       THEN Done("set") /\ UNCHANGED pc
       ELSE pc' = "emit" /\ UNCHANGED <<lastOp, prevOp>>
    /\ UNCHANGED <<obj, listeners, m_timer, ret, testLog>>

\* TestQProperty::setMessage, up to the emit: m_message = newMessage, then
\* messageChanged(m_message) starts activating the connections
SetMessage(v) ==
    /\ PropFrame
    /\ obj = "live" /\ pc = "idle"
    /\ setArg' = v
    /\ setOld' = m_message
    /\ m_message' = v
    /\ emitArg' = m_message'
    /\ calls' = <<>>
    /\ idx' = 1
    /\ pc' = "emit"
    /\ UNCHANGED <<obj, listeners, m_timer, ret, lastOp, prevOp, testLog>>

\* the emit activates the next connection: the listener runs inside
\* setMessage, receives the signal's argument and may read message()
Notify ==
    /\ PropFrame
    /\ pc = "emit"
    /\ idx <= Len(listeners)
    /\ calls' = Append(calls, [listener |-> listeners[idx], arg |-> emitArg,
                               seen |-> m_message])
    /\ idx' = idx + 1
    /\ UNCHANGED <<obj, m_message, listeners, m_timer, pc, emitArg, setArg,
                   setOld, ret, lastOp, prevOp, testLog>>

\* every connection was activated: the emit and setMessage return
SetReturn ==
    /\ PropFrame
    /\ pc = "emit"
    /\ idx > Len(listeners)
    /\ pc' = "idle"
    /\ Done("set")
    /\ UNCHANGED <<obj, m_message, listeners, m_timer, idx, emitArg, calls,
                   setArg, setOld, ret, testLog>>

SetMessageCall == \E v \in Strings : SetMessage(v)

\* time passes while the object sits in the event loop
PropElapse ==
    /\ PropFrame
    /\ obj = "live" /\ pc = "idle"
    /\ m_timer' = QTimerElapse(m_timer)
    /\ m_timer' # m_timer
    /\ UNCHANGED <<obj, m_message, listeners, pc, idx, emitArg, calls, setArg,
                   setOld, ret, lastOp, prevOp, testLog>>

\* the event loop delivers m_timer's timeout to TestQProperty::timeout,
\* which writes "Test!"
Timeout ==
    /\ PropFrame
    /\ obj = "live" /\ pc = "idle"
    /\ QTimerDue(m_timer)
    /\ testLog < MaxTestLines
    /\ m_timer' = QTimerFire(m_timer)
    /\ testLog' = testLog + 1
    /\ Done("tick")
    /\ UNCHANGED <<obj, m_message, listeners, pc, idx, emitArg, calls, setArg,
                   setOld, ret>>

\* the object goes away and its timer with it
PropDestroy ==
    /\ PropFrame
    /\ obj = "live" /\ pc = "idle"
    /\ obj' = "destroyed"
    /\ m_timer' = QTimerStop(m_timer)
    /\ Done("dtor")
    /\ UNCHANGED <<m_message, listeners, pc, idx, emitArg, calls, setArg,
                   setOld, ret, testLog>>

----------------------------------------------------------------------------
(* main and testStaticFunctions *)

Flags == {"-a", "-b"}

RECURSIVE SeqsUpTo(_)
SeqsUpTo(n) ==
    IF n = 0 THEN {<<>>}
    ELSE LET shorter == SeqsUpTo(n - 1)
         IN  shorter \cup {Append(s, f) : s \in shorter, f \in Flags}

MainFrame == UNCHANGED <<animalVars, calcVars, propVars, timerVars>>

InitMainVarsWith(args) ==
    /\ mpc = "start"
    /\ argv = args
    /\ out = <<>>
    /\ quit = FALSE
    /\ exitCode = <<>>

\* testStaticFunctions::testStaticFunctions
testStaticFunctionsCtor(log) == Append(log, "Constructed")

\* testStaticFunctions::doOtherStuff
doOtherStuff(log) == Append(log, "doOtherStuff")

\* testStaticFunctions::doStuff
doStuff(log) == doOtherStuff(Append(log, "doStuff"))

\* QCoreApplication a(argc, argv);
MainApp ==
    /\ MainFrame
    /\ mpc = "start"
    /\ mpc' = "app"
    /\ UNCHANGED <<argv, out, quit, exitCode>>

\* testStaticFunctions t;
MainConstructT ==
    /\ MainFrame
    /\ mpc = "app"
    /\ out' = testStaticFunctionsCtor(out)
    /\ mpc' = "t"
    /\ UNCHANGED <<argv, quit, exitCode>>

\* t.doStuff();
MainDoStuff ==
    /\ MainFrame
    /\ mpc = "t"
    /\ out' = doStuff(out)
    /\ mpc' = "doStuff"
    /\ UNCHANGED <<argv, quit, exitCode>>

\* t.doOtherStuff();
MainDoOtherStuff ==
    /\ MainFrame
    /\ mpc = "doStuff"
    /\ out' = doOtherStuff(out)
    /\ mpc' = "doOtherStuff"
    /\ UNCHANGED <<argv, quit, exitCode>>

\* testStaticFunctions::doOtherStuff();
MainStaticDoOtherStuff ==
    /\ MainFrame
    /\ mpc = "doOtherStuff"
    /\ out' = doOtherStuff(out)
    /\ mpc' = "exec"
    /\ UNCHANGED <<argv, quit, exitCode>>

\* return a.exec(): the event loop runs until quit() or exit() is called and
\* only then hands back the return code.  The routine set up no timer, no
\* socket and no posted event and never calls quit(), so the loop blocks in
\* the event dispatcher.
MainExec ==
    /\ MainFrame
    /\ mpc = "exec"
    /\ IF quit
       THEN /\ mpc' = "returned"
            /\ exitCode' = <<0>>
       ELSE /\ mpc' = "waiting"
            /\ UNCHANGED exitCode
    /\ UNCHANGED <<argv, out, quit>>

----------------------------------------------------------------------------
(* Specifications *)

InitMainVars == InitMainVarsWith(<<>>)

InitAnimal == InitAnimalVars /\ InitCalcVars /\ InitPropVars /\ InitTimerVars /\ InitMainVars
NextAnimal == Construct \/ Destruct
SpecAnimal == InitAnimal /\ [][NextAnimal]_vars

InitCalc == InitAnimal
NextCalc == CallCalc \/ CallCatYears \/ CallDogYears
SpecCalc == InitCalc /\ [][NextCalc]_vars

InitProp == InitAnimal
NextProp == PropConstruct \/ Connect \/ Message \/ SetMessageCall \/ Notify
                \/ SetReturn \/ PropElapse \/ Timeout \/ PropDestroy
SpecProp == InitProp /\ [][NextProp]_vars

InitTimer == InitAnimal
NextTimer == TimerStart \/ TimerStop \/ TimerElapse \/ TimerTick
SpecTimer == InitTimer /\ [][NextTimer]_vars

InitMain ==
    /\ InitAnimalVars /\ InitCalcVars /\ InitPropVars /\ InitTimerVars
    /\ \E args \in SeqsUpTo(MaxArgs) : InitMainVarsWith(args)
NextMain == MainApp \/ MainConstructT \/ MainDoStuff \/ MainDoOtherStuff
                \/ MainStaticDoOtherStuff \/ MainExec
SpecMain == InitMain /\ [][NextMain]_vars /\ WF_vars(NextMain)

----------------------------------------------------------------------------
(* Properties *)

\* C1: Animal::count equals the number of Animals constructed and not yet
\* destroyed (constructor runs minus destructor runs) and is never negative.
CountIsLiveAnimals ==
    /\ count = constructs - destructs
    /\ count = Cardinality(Live)
    /\ count >= 0

\* an Animal was destroyed while others stay alive
CountIsLiveAnimalsWitness ==
    /\ constructs >= 3
    /\ destructs >= 1
    /\ count >= 1

\* C2: when setMessage(x) returns, every connection to messageChanged has
\* been activated exactly once with x, in connection order; while the emit
\* runs, the activations made so far are that prefix.
ListenersNotifiedInOrder ==
    /\ pc = "emit" => Len(calls) = idx - 1 /\ Len(calls) <= Len(listeners)
    /\ (pc = "emit" \/ lastOp = "set") =>
          \A i \in DOMAIN calls :
              /\ i <= Len(listeners)
              /\ calls[i].listener = listeners[i]
              /\ calls[i].arg = setArg
    /\ (pc = "idle" /\ lastOp = "set") => Len(calls) = Len(listeners)

\* setMessage("x") has returned with two different listeners connected
ListenersNotifiedInOrderWitness ==
    /\ pc = "idle" /\ lastOp = "set" /\ setArg = "x"
    /\ Len(listeners) = 2 /\ listeners[1] # listeners[2]
    /\ Len(calls) = 2

\* C3: message() called right after setMessage(v) returns v, whatever the
\* value was before; message() changes no state and notifies nobody.
WriteThenRead ==
    [][Message => /\ ret' = m_message
                  /\ lastOp = "set" => ret' = setArg
                  /\ UNCHANGED <<obj, m_message, listeners, m_timer, pc, calls,
                                 testLog>>]_vars

\* message() returned "x" right after setMessage("x") replaced "y"
WriteThenReadWitness ==
    /\ lastOp = "get" /\ prevOp = "set"
    /\ setOld = "y" /\ setArg = "x" /\ ret = "x"

\* C4: after stop() has returned, no tick of that timer is delivered (until
\* it is started again).
NoTickAfterStop == ticksSinceStop = 0

\* a timer that had ticked was stopped while Running and more than its
\* interval has passed since
NoTickAfterStopWitness ==
    /\ tLastOp = "stop" /\ tPrev.state = "Running"
    /\ tticks >= 1
    /\ elapsed * TimeStep > tPrev.interval

\* C5: a helper call with age <= 0 or age > 120 ends the process with a fatal
\* error, for every offset: it returns nothing and writes no "Calc:" line.
InvalidAgeIsFatal ==
    (lastCall.fn # "none" /\ (lastCall.age <= 0 \/ lastCall.age > MaxAge)) =>
        /\ lastCall.kind = "fatal"
        /\ ~lastCall.logged
        /\ proc = "aborted"

\* dogYears(200) was called
InvalidAgeIsFatalWitness ==
    /\ lastCall.fn = "dogYears" /\ lastCall.age = 200
    /\ proc = "aborted"

\* C6: for a valid age dogYears returns 7 * age and catYears returns 9 * age,
\* a positive integer, without ending the process; so does calc for a
\* positive factor whose product fits an int.
ValidAgeReturnsProduct ==
    LET c == lastCall
        valid == c.age >= 1 /\ c.age <= MaxAge
        factor == IF c.fn = "dogYears" THEN 7 ELSE IF c.fn = "catYears" THEN 9
                  ELSE c.offset
    IN  (c.fn # "none" /\ valid /\ factor > 0 /\ factor <= IntMax \div c.age) =>
            /\ c.kind = "returned"
            /\ proc = "running"
            /\ c.value = factor * c.age
            /\ c.value > 0
            /\ c.logged /\ calcLog[Len(calcLog)] = c.value

\* dogYears(46) returned 322
ValidAgeReturnsProductWitness ==
    /\ lastCall.fn = "dogYears" /\ lastCall.age = 46
    /\ lastCall.kind = "returned" /\ lastCall.value = 322

\* C7: main runs its routine and then eventually returns exit code 0.
MainReturnsZero == <>(mpc = "returned" /\ exitCode = <<0>>)

\* C8: the timer is Idle or Running and starts Idle; start leaves it Running,
\* stop leaves it Idle and changes nothing when it was Idle; a tick is
\* delivered only to a Running timer.
TimerTwoStates ==
    /\ tmr.state \in {"Idle", "Running"}
    /\ tLastOp = "none" => tmr.state = "Idle"
    /\ tLastOp = "start" => tmr.state = "Running"
    /\ tLastOp = "stop" => /\ tmr.state = "Idle"
                           /\ tPrev.state = "Idle" => tmr = tPrev
    /\ tLastOp = "tick" => tPrev.state = "Running" /\ tmr.state = "Running"

\* stop() was called on an Idle timer that had run before
TimerTwoStatesWitness ==
    /\ tLastOp = "stop" /\ tPrev.state = "Idle"
    /\ tPrev.interval > 0 /\ tticks >= 1

\* C9: setMessage stores first and notifies second, so a listener reading
\* message() during its notification sees the new value; a setMessage whose
\* argument equals the current value still stores and still notifies every
\* listener once.
SetIsUnconditional ==
    /\ pc = "emit" => m_message = setArg
    /\ (pc = "emit" \/ lastOp = "set") =>
          \A i \in DOMAIN calls : calls[i].seen = setArg /\ calls[i].arg = setArg
    /\ (pc = "idle" /\ lastOp = "set" /\ setOld = setArg) =>
          /\ m_message = setArg
          /\ Len(calls) = Len(listeners)

\* setMessage("x") returned on a property already holding "x", with two
\* listeners connected
SetIsUnconditionalWitness ==
    /\ pc = "idle" /\ lastOp = "set"
    /\ setOld = "x" /\ setArg = "x"
    /\ Len(listeners) = 2 /\ Len(calls) = 2

\* C10: from the constructor's return until destruction m_timer is Running
\* with interval 1000; a tick only writes "Test!": it leaves the message
\* alone and notifies no listener.
TimerStaysRunning ==
    /\ [](obj = "live" => /\ m_timer.state = "Running"
                          /\ m_timer.interval = TimerInterval)
    /\ [][Timeout => /\ testLog' = testLog + 1
                     /\ UNCHANGED <<m_message, listeners, calls, pc>>]_vars

\* two ticks were delivered to an object whose message had been set
TimerStaysRunningWitness ==
    /\ obj = "live" /\ lastOp = "tick"
    /\ testLog >= 2
    /\ m_message = "x"

====
